---------------------------- MODULE Spec2Model ----------------------------
(***************************************************************************)
(* Model of src/src/App.tsx: the "ras" (weighted-average settlement date)  *)
(* calculator.  Strings are sequences of one-character strings, JavaScript *)
(* numbers are records that may be NaN, Date objects are instants counted  *)
(* in half hours since 1970-01-01T00:00Z (every offset the model uses is a *)
(* multiple of 30 minutes, so the scaling of milliseconds is exact).       *)
(***************************************************************************)
EXTENDS Integers, Sequences, FiniteSets, TLC

VARIABLES tz, now, baseDate, cheques, imageJob, excelJob, probe

vars == <<tz, now, baseDate, cheques, imageJob, excelJob, probe>>

---------------------------------------------------------------------------
(* JavaScript numbers: an integer or NaN.                                  *)

N(v) == [nan |-> FALSE, v |-> v]

NaN == [nan |-> TRUE, v |-> 0]

plus(a, b) == IF a.nan \/ b.nan THEN NaN ELSE N(a.v + b.v)

minus(a, b) == IF a.nan \/ b.nan THEN NaN ELSE N(a.v - b.v)

times(a, b) == IF a.nan \/ b.nan THEN NaN ELSE N(a.v * b.v)

lt(a, b) == ~a.nan /\ ~b.nan /\ a.v < b.v

ge(a, b) == ~a.nan /\ ~b.nan /\ a.v >= b.v

eq(a, b) == ~a.nan /\ ~b.nan /\ a.v = b.v

(* x / y truncated toward zero, y > 0 *)
Trunc(x, y) == IF x >= 0 THEN x \div y ELSE -((-x) \div y)

(* jalaali-js div(a, b) = ~~(a / b): ToInt32 turns NaN into 0 *)
div(a, b) == IF a.nan \/ b.nan THEN N(0) ELSE N(Trunc(a.v, b.v))

(* jalaali-js mod(a, b) = a - ~~(a / b) * b *)
mod(a, b) == minus(a, times(div(a, b), b))

(* Math.round(n / d) for integers n and d > 0: floor(n/d + 1/2) *)
(* a tie rounded away from zero *)
MathRoundAway(n, d) ==
    IF n >= 0 THEN (2 * n + d) \div (2 * d) ELSE -((2 * (-n) + d) \div (2 * d))

MathRound(n, d) ==
    LET q == n \div d
        r == n - q * d
    IN  IF 2 * r >= d THEN q + 1 ELSE q

---------------------------------------------------------------------------
(* Strings                                                                 *)

Digits == <<"0", "1", "2", "3", "4", "5", "6", "7", "8", "9">>

IsDigit(c) == \E i \in 1..10 : Digits[i] = c

DigitVal(c) == (CHOOSE i \in 1..10 : Digits[i] = c) - 1

IsSpace(c) == c = " "

RECURSIVE DropWhileSpace(_)
DropWhileSpace(s) ==
    IF s # <<>> /\ IsSpace(Head(s)) THEN DropWhileSpace(Tail(s)) ELSE s

RECURSIVE DropTrailingSpace(_)
DropTrailingSpace(s) ==
    IF s # <<>> /\ IsSpace(s[Len(s)])
    THEN DropTrailingSpace(SubSeq(s, 1, Len(s) - 1)) ELSE s

RECURSIVE DigitPrefix(_)
DigitPrefix(s) ==
    IF s # <<>> /\ IsDigit(Head(s)) THEN <<Head(s)>> \o DigitPrefix(Tail(s))
    ELSE <<>>

RECURSIVE DigitsValue(_, _)
DigitsValue(s, acc) ==
    IF s = <<>> THEN acc ELSE DigitsValue(Tail(s), acc * 10 + DigitVal(Head(s)))

AllDigits(s) == \A i \in 1..Len(s) : IsDigit(s[i])

(* str.replace(/,/g, '') *)
RECURSIVE RemoveCommas(_)
RemoveCommas(s) ==
    IF s = <<>> THEN <<>>
    ELSE IF Head(s) = "," THEN RemoveCommas(Tail(s))
    ELSE <<Head(s)>> \o RemoveCommas(Tail(s))

(* str.split('/') *)
RECURSIVE SplitFrom(_, _)
SplitFrom(s, cur) ==
    IF s = <<>> THEN <<cur>>
    ELSE IF Head(s) = "/" THEN <<cur>> \o SplitFrom(Tail(s), <<>>)
    ELSE SplitFrom(Tail(s), Append(cur, Head(s)))

split(s) == SplitFrom(s, <<>>)

(* parseInt(str, 10): leading white space, an optional sign, then the      *)
(* longest run of decimal digits; NaN when that run is empty.              *)
parseInt(str) ==
    LET t    == DropWhileSpace(str)
        neg  == t # <<>> /\ Head(t) = "-"
        sgn  == t # <<>> /\ Head(t) \in {"-", "+"}
        body == IF sgn THEN Tail(t) ELSE t
        ds   == DigitPrefix(body)
    IN  IF ds = <<>> THEN NaN
        ELSE N(IF neg THEN -DigitsValue(ds, 0) ELSE DigitsValue(ds, 0))

(* Number(str) on strings without '.', exponent or radix prefix: the whole *)
(* trimmed text must be an optionally signed run of digits; '' is 0.       *)
Number(str) ==
    LET t    == DropTrailingSpace(DropWhileSpace(str))
        neg  == t # <<>> /\ Head(t) = "-"
        sgn  == t # <<>> /\ Head(t) \in {"-", "+"}
        body == IF sgn THEN Tail(t) ELSE t
    IN  IF t = <<>> THEN N(0)
        ELSE IF body = <<>> \/ ~AllDigits(body) THEN NaN
        ELSE N(IF neg THEN -DigitsValue(body, 0) ELSE DigitsValue(body, 0))

(* n.toString() for an integer *)
RECURSIVE NatToStr(_)
NatToStr(n) ==
    IF n < 10 THEN <<Digits[n + 1]>>
    ELSE NatToStr(n \div 10) \o <<Digits[(n % 10) + 1]>>

toString(n) == IF n < 0 THEN <<"-">> \o NatToStr(-n) ELSE NatToStr(n)

(* s.padStart(2, '0') *)
padStart2(s) == IF Len(s) < 2 THEN <<"0">> \o s ELSE s

---------------------------------------------------------------------------
(* jalaali-js, the calendar library App.tsx calls.  Its arithmetic is      *)
(* JavaScript's: div truncates and maps NaN to 0, comparisons with NaN are *)
(* false, and jalCal throws for an integer year outside [-61, 3178).       *)

Breaks == <<-61, 9, 38, 199, 426, 686, 756, 818, 1111, 1181, 1210, 1635,
            2060, 2097, 2192, 2262, 2324, 2394, 2456, 3178>>

(* the for loop of jalCal: jp, jump and leapJ when it ends or breaks *)
RECURSIVE JalCalLoop(_, _, _, _, _)
JalCalLoop(jy, k, jp, jump, leapJ) ==
    IF k > Len(Breaks) THEN [jp |-> jp, jump |-> jump, leapJ |-> leapJ]
    ELSE IF lt(jy, N(Breaks[k]))
         THEN [jp |-> jp, jump |-> Breaks[k] - jp, leapJ |-> leapJ]
         ELSE JalCalLoop(jy, k + 1, Breaks[k], Breaks[k] - jp,
                         leapJ + ((Breaks[k] - jp) \div 33) * 8
                               + (((Breaks[k] - jp) % 33) \div 4))

(* leap: the years since the last leap year, from n and jump *)
JalCalLeapOf(leap0) == IF eq(leap0, N(-1)) THEN N(4) ELSE leap0

JalCalLeap(n, jump) ==
    JalCalLeapOf(mod(minus(mod(plus(
        IF lt(minus(jump, n), N(6))
        THEN plus(minus(n, jump), times(div(plus(jump, N(4)), N(33)), N(33)))
        ELSE n, N(1)), N(33)), N(1)), N(4)))

(* leapG: the Gregorian leap years until gy *)
JalCalLeapG(gy) ==
    minus(minus(div(gy, N(4)), div(times(plus(div(gy, N(100)), N(1)), N(3)), N(4))),
          N(150))

(* leapJ: the Jalaali leap years until jy *)
JalCalLeapJ(leapJ, n, jump) ==
    plus(plus(plus(leapJ, times(div(n, N(33)), N(8))),
              div(plus(mod(n, N(33)), N(3)), N(4))),
         IF eq(mod(jump, N(33)), N(4)) /\ eq(minus(jump, n), N(4)) THEN N(1) ELSE N(0))

JalCalFrom(jy, n, jump, leapJ) ==
    [threw |-> lt(jy, N(Breaks[1])) \/ ge(jy, N(Breaks[Len(Breaks)])),
     leap  |-> JalCalLeap(n, jump),
     gy    |-> plus(jy, N(621)),
     march |-> minus(plus(N(20), JalCalLeapJ(leapJ, n, jump)),
                     JalCalLeapG(plus(jy, N(621))))]

JalCalAfterLoop(jy, L) == JalCalFrom(jy, minus(jy, N(L.jp)), N(L.jump), N(L.leapJ))

jalCal(jy) == JalCalAfterLoop(jy, JalCalLoop(jy, 2, Breaks[1], 0, -14))

G2dFrom(y, gm, gd) ==
    plus(minus(minus(plus(plus(div(times(y, N(1461)), N(4)),
                               div(plus(times(N(153), mod(plus(gm, N(9)), N(12))),
                                        N(2)), N(5))),
                          gd),
                     N(34840408)),
               div(times(div(y, N(100)), N(3)), N(4))),
         N(752))

g2d(gy, gm, gd) == G2dFrom(plus(plus(gy, div(minus(gm, N(8)), N(6))), N(100100)), gm, gd)

D2gYear(j, gm, gd) ==
    [gy |-> plus(minus(div(j, N(1461)), N(100100)), div(minus(N(8), gm), N(6))),
     gm |-> gm, gd |-> gd]

D2gFromI(j, i) ==
    D2gYear(j, plus(mod(div(i, N(153)), N(12)), N(1)),
            plus(div(mod(i, N(153)), N(5)), N(1)))

D2gFromJ(j) == D2gFromI(j, plus(times(div(mod(j, N(1461)), N(4)), N(5)), N(308)))

d2g(jdn) ==
    D2gFromJ(minus(plus(plus(times(N(4), jdn), N(139361631)),
                        times(div(times(div(plus(times(N(4), jdn), N(183187720)),
                                            N(146097)), N(3)), N(4)), N(4))),
                   N(3908)))

J2dFrom(r, jm, jd) ==
    [threw |-> r.threw,
     jdn   |-> minus(plus(minus(plus(g2d(r.gy, N(3), r.march),
                                     times(minus(jm, N(1)), N(31))),
                                times(div(jm, N(7)), minus(jm, N(7)))),
                          jd),
                     N(1))]

j2d(jy, jm, jd) == J2dFrom(jalCal(jy), jm, jd)

(* the second half of the year, k days after 1 Mehr *)
D2jLate(threw, jy, k) ==
    [threw |-> threw, jy |-> jy,
     jm |-> plus(N(7), div(k, N(30))), jd |-> plus(mod(k, N(30)), N(1))]

D2jFromK(jy, r, k) ==
    IF ge(k, N(0)) /\ ge(N(185), k)
    THEN [threw |-> r.threw, jy |-> jy,
          jm |-> plus(N(1), div(k, N(31))), jd |-> plus(mod(k, N(31)), N(1))]
    ELSE IF ge(k, N(0)) THEN D2jLate(r.threw, jy, minus(k, N(186)))
    ELSE D2jLate(r.threw, minus(jy, N(1)),
                 plus(plus(k, N(179)), IF eq(r.leap, N(1)) THEN N(1) ELSE N(0)))

D2jFromCal(jdn, gy, jy, r) == D2jFromK(jy, r, minus(jdn, g2d(gy, N(3), r.march)))

D2jFromYear(jdn, gy) == D2jFromCal(jdn, gy, minus(gy, N(621)), jalCal(minus(gy, N(621))))

d2j(jdn) == D2jFromYear(jdn, d2g(jdn).gy)

ToGregorianFrom(r, g) == [threw |-> r.threw, gy |-> g.gy, gm |-> g.gm, gd |-> g.gd]

ToGregorianOf(r) == ToGregorianFrom(r, d2g(r.jdn))

toGregorian(jy, jm, jd) == ToGregorianOf(j2d(jy, jm, jd))

toJalaali(gy, gm, gd) == d2j(g2d(gy, gm, gd))

isLeapJalaaliYear(jy) == eq(jalCal(jy).leap, N(0))

jalaaliMonthLength(jy, jm) ==
    IF ge(N(6), jm) THEN 31
    ELSE IF ge(N(11), jm) THEN 30
    ELSE IF isLeapJalaaliYear(jy) THEN 30 ELSE 29

isValidJalaaliDate(jy, jm, jd) ==
    /\ ge(jy, N(-61)) /\ ge(N(3177), jy)
    /\ ge(jm, N(1)) /\ ge(N(12), jm)
    /\ ge(jd, N(1)) /\ ge(N(jalaaliMonthLength(jy, jm)), jd)

---------------------------------------------------------------------------
(* The host's Date object.  An instant is a number of half hours since the *)
(* epoch; the local time zone is the variable tz.                          *)

HalfHoursPerDay == 48

EpochJdn == 2440588

Val(x) == CASE ~x.nan -> x.v

TimeZones == {"UTC", "Asia/Tehran"}

StdOffset(zone) == IF zone = "Asia/Tehran" THEN 7 ELSE 0

(* Iran's daylight-saving rule of 1387-1401 (2008-2022): from 00:00 on     *)
(* 2 Farvardin to 24:00 (daylight time) on 30 Shahrivar the clock is one   *)
(* hour ahead.  hh is the half hour of the standard-time day j.            *)
TehranRule(j, hh) ==
    /\ Val(j.jy) \in 1387..1401
    /\ \/ Val(j.jm) = 1 /\ Val(j.jd) >= 2
       \/ Val(j.jm) \in 2..5
       \/ Val(j.jm) = 6 /\ Val(j.jd) < 30
       \/ Val(j.jm) = 6 /\ Val(j.jd) = 30 /\ hh < HalfHoursPerDay - 2

TehranDSTAt(ls) ==
    /\ ls \div HalfHoursPerDay \in 13000..20000
    /\ TehranRule(d2j(N((ls \div HalfHoursPerDay) + EpochJdn)), ls % HalfHoursPerDay)

TehranDST(t) == TehranDSTAt(t + StdOffset("Asia/Tehran"))

DstShift(zone, t) == IF zone = "Asia/Tehran" /\ TehranDST(t) THEN 2 ELSE 0

Offset(zone, t) == StdOffset(zone) + DstShift(zone, t)

(* The instant of a local wall-clock time: the earlier instant when the    *)
(* time occurs twice, the offset before the change when it is skipped.     *)
UTCOf(zone, tl) ==
    IF DstShift(zone, tl - StdOffset(zone) - 2) = 2
    THEN tl - StdOffset(zone) - 2
    ELSE tl - StdOffset(zone)

NewDateAt(zone, day) == N(UTCOf(zone, day * HalfHoursPerDay))

(* new Date(year, monthIndex, day) with a month and day in range: local    *)
(* midnight of that civil day; years 0..99 mean 1900..1999.                *)
NewDate(zone, gy, gm, gd) ==
    IF gy.nan \/ gm.nan \/ gd.nan THEN NaN
    ELSE NewDateAt(zone, Val(g2d(IF gy.v \in 0..99 THEN N(1900 + gy.v) ELSE gy,
                                 gm, gd)) - EpochJdn)

LocalDay(zone, t) == (t + Offset(zone, t)) \div HalfHoursPerDay

(* getFullYear(), getMonth() + 1, getDate() *)
LocalFields(zone, date) ==
    IF date.nan THEN [gy |-> NaN, gm |-> NaN, gd |-> NaN]
    ELSE d2g(N(LocalDay(zone, date.v) + EpochJdn))

---------------------------------------------------------------------------
(* The helpers of App.tsx                                                  *)

ParsedOrZero(n) == IF n.nan \/ n.v = 0 THEN 0 ELSE n.v

parseNumber(str) == ParsedOrZero(parseInt(RemoveCommas(str)))

ValidParts(parts) ==
    IF Len(parts) # 3 THEN FALSE
    ELSE isValidJalaaliDate(parseInt(parts[1]), parseInt(parts[2]),
                            parseInt(parts[3]))

isValidJalali(dateStr) == ValidParts(split(dateStr))

(* array destructuring [y, m, d] of a shorter array leaves undefined,     *)
(* which the library's arithmetic turns into NaN                           *)
PartNumber(parts, i) == IF i <= Len(parts) THEN Number(parts[i]) ELSE NaN

DateOfGregorian(zone, g) ==
    [threw |-> g.threw, time |-> NewDate(zone, g.gy, g.gm, g.gd)]

DateOfParts(zone, parts) ==
    DateOfGregorian(zone, toGregorian(PartNumber(parts, 1), PartNumber(parts, 2),
                                      PartNumber(parts, 3)))

jalaliToDate(zone, dateStr) == DateOfParts(zone, split(dateStr))

numToString(x) == IF x.nan THEN <<"N", "a", "N">> ELSE toString(x.v)

FormatJalali(j) ==
    [threw |-> j.threw,
     text  |-> numToString(j.jy) \o <<"/">> \o padStart2(numToString(j.jm))
               \o <<"/">> \o padStart2(numToString(j.jd))]

JalaliOfFields(f) == FormatJalali(toJalaali(f.gy, f.gm, f.gd))

dateToJalali(zone, date) == JalaliOfFields(LocalFields(zone, date))

RECURSIVE OnlyDigits(_)
OnlyDigits(s) ==
    IF s = <<>> THEN <<>>
    ELSE IF IsDigit(Head(s)) THEN <<Head(s)>> \o OnlyDigits(Tail(s))
    ELSE OnlyDigits(Tail(s))

(* s.slice(a, b) for 0 <= a <= b *)
slice(s, a, b) ==
    SubSeq(s, a + 1, IF b < Len(s) THEN b ELSE Len(s))

(* the second separator put in one character early *)
InsertSecondSlashEarly(v) ==
    IF Len(v) > 6 THEN slice(v, 0, 7) \o <<"/">> \o slice(v, 7, 9) ELSE v

InsertSecondSlash(v) ==
    IF Len(v) > 7 THEN slice(v, 0, 7) \o <<"/">> \o slice(v, 7, 9) ELSE v

InsertFirstSlash(v) ==
    IF Len(v) > 4 THEN slice(v, 0, 4) \o <<"/">> \o slice(v, 4, Len(v)) ELSE v

formatJalaliInput(value) == InsertSecondSlash(InsertFirstSlash(OnlyDigits(value)))

---------------------------------------------------------------------------
(* The calculation (useMemo): one pass over the cheque list                *)

Null == [kind |-> "null"]

Threw == [kind |-> "throw"]

(* the accumulation without its guard on the amount *)
AccumulateAlways(acc, amt, diffDays) ==
    [acc EXCEPT !.totalAmount = @ + amt,
                !.totalValueDays = @ + amt * diffDays,
                !.validChequesCount = @ + 1]

(* the accumulation without the weight of the amount *)
AccumulateUnweighted(acc, amt, diffDays) ==
    IF amt > 0
    THEN [acc EXCEPT !.totalAmount = @ + amt,
                     !.totalValueDays = @ + diffDays,
                     !.validChequesCount = @ + 1]
    ELSE acc

(* lines 245-249: the accumulators after one record with a day offset *)
Accumulate(acc, amt, diffDays) ==
    IF amt > 0
    THEN [acc EXCEPT !.totalAmount = @ + amt,
                     !.totalValueDays = @ + amt * diffDays,
                     !.validChequesCount = @ + 1]
    ELSE acc

(* lines 241-242: Math.round((chqD.getTime() - baseD.getTime()) / 86400000) *)
DiffDays(chqD, baseD) == MathRound(Val(chqD) - Val(baseD), HalfHoursPerDay)

(* lines 252-258: the row that map returns *)
AppendRow(acc, cheque, amt, isDateValid, days) ==
    [acc EXCEPT !.processed =
        Append(@, [id |-> cheque.id, amount |-> cheque.amount,
                   date |-> cheque.date, parsedAmount |-> amt,
                   isDateValid |-> isDateValid,
                   isInvalid |-> Len(cheque.date) >= 8 /\ ~isDateValid,
                   days |-> days])]

(* lines 242-250 *)
WithDiffDays(acc, cheque, amt, threw, diffDays) ==
    AppendRow([Accumulate(acc, amt, diffDays) EXCEPT !.threw = @ \/ threw],
              cheque, amt, TRUE, toString(diffDays))

(* lines 240-241 *)
WithChequeDate(acc, cheque, amt, chq, baseD) ==
    WithDiffDays(acc, cheque, amt, chq.threw, DiffDays(chq.time, baseD.time))

(* lines 237-250 *)
ProcessParsed(zone, acc, cheque, baseD, amt, isDateValid) ==
    IF baseD # Null /\ isDateValid
    THEN WithChequeDate(acc, cheque, amt, jalaliToDate(zone, cheque.date), baseD)
    ELSE AppendRow(acc, cheque, amt, isDateValid, <<"-">>)

(* lines 234-258: the body of cheques.map for one cheque *)
ProcessCheque(zone, acc, cheque, baseD) ==
    ProcessParsed(zone, acc, cheque, baseD, parseNumber(cheque.amount),
                  isValidJalali(cheque.date))

RECURSIVE MapCheques(_, _, _, _)
MapCheques(zone, acc, list, baseD) ==
    IF list = <<>> THEN acc
    ELSE MapCheques(zone, ProcessCheque(zone, acc, Head(list), baseD),
                    Tail(list), baseD)

(* a result only from two contributing records on *)
HasResultPlural(acc, baseD) ==
    acc.totalAmount > 0 /\ acc.validChequesCount > 1 /\ baseD # Null

(* line 262: the condition under which a result is built *)
HasResult(acc, baseD) ==
    acc.totalAmount > 0 /\ acc.validChequesCount > 0 /\ baseD # Null

(* the quotient cut off instead of rounded *)
AverageDaysFloor(acc) == acc.totalValueDays \div acc.totalAmount

(* line 263 *)
AverageDays(acc) == MathRound(acc.totalValueDays, acc.totalAmount)

(* line 264: new Date(baseD.getTime() + averageDays * 24 * 60 * 60 * 1000) *)
RasDateObj(baseD, averageDays) == N(Val(baseD.time) + averageDays * HalfHoursPerDay)

(* lines 265-270 *)
ResultObject(acc, averageDays, ras) ==
    IF ras.threw THEN Threw
    ELSE [kind |-> "value",
          totalAmount |-> acc.totalAmount,
          averageDays |-> averageDays,
          rasDate |-> ras.text,
          validChequesCount |-> acc.validChequesCount]

(* lines 263-270 *)
ResultFor(zone, acc, baseD, averageDays) ==
    ResultObject(acc, averageDays, dateToJalali(zone, RasDateObj(baseD, averageDays)))

(* lines 261-271 *)
BuildResult(zone, acc, baseD) ==
    IF acc.threw THEN Threw
    ELSE IF ~HasResult(acc, baseD) THEN Null
    ELSE ResultFor(zone, acc, baseD, AverageDays(acc))

(* line 273 *)
MemoValue(zone, acc, baseD) ==
    [processedCheques |-> acc.processed,
     results     |-> BuildResult(zone, acc, baseD),
     isBaseValid |-> baseD # Null,
     totals      |-> [totalAmount |-> acc.totalAmount,
                      totalValueDays |-> acc.totalValueDays,
                      validChequesCount |-> acc.validChequesCount]]

(* lines 230-259 *)
MemoPass(zone, list, baseD) ==
    MemoValue(zone,
              MapCheques(zone,
                         [totalAmount |-> 0, totalValueDays |-> 0,
                          validChequesCount |-> 0, processed |-> <<>>,
                          threw |-> baseD # Null /\ baseD.threw],
                         list, baseD),
              baseD)

(* lines 226-274 *)
useMemo(zone, base, list) ==
    MemoPass(zone, list, IF isValidJalali(base) THEN jalaliToDate(zone, base) ELSE Null)

(* line 226: what the component renders from in the current state *)
memo == useMemo(tz, baseDate, cheques)

processedCheques == memo.processedCheques

results == memo.results

isBaseValid == memo.isBaseValid

totals == memo.totals

---------------------------------------------------------------------------
(* Inputs and bounds                                                       *)

(* "y/mm/dd" *)
Ymd(y, m, d) ==
    toString(y) \o <<"/">> \o padStart2(toString(m)) \o <<"/">> \o padStart2(toString(d))

(* "y/m/d", no leading zeros *)
YmdPlain(y, m, d) == toString(y) \o <<"/">> \o toString(m) \o <<"/">> \o toString(d)

Amount1000 == <<"1", "0", "0", "0">>

Amount3000 == <<"3", "0", "0", "0">>

InvalidDate == <<"1", "4", "0", "3", "/", "1", "3", "/", "4", "0">>

(* a date cell as a spreadsheet or the extraction service may deliver it *)
UnformattedDate == Ymd(1403, 1, 11) \o <<"a">>

MaxCheques == 2

MaxTick == 1

MaxCalcCheques == 2

(* what the user types into the base date field *)
BaseDates == {Ymd(1401, 2, 1)}

(* what the user types into a date field *)
UiDates == {Ymd(1403, 1, 11)}

(* what the user types into an amount field *)
UiAmounts == {Amount1000}

(* the base dates of the calculation's inputs *)
CalcBaseDates == {Ymd(1403, 1, 1), Ymd(1401, 2, 1), InvalidDate}

Row(amount, date) == [amount |-> amount, date |-> date]

(* rows of the calculation's input: blank, without an amount, with a date  *)
(* out of the calendar, well-formed ones after and before the base dates,  *)
(* and an imported one whose date text is unformatted                      *)
CalcRows ==
    {Row(<<>>, <<>>),
     Row(<<>>, Ymd(1403, 1, 11)),
     Row(Amount1000, InvalidDate),
     Row(Amount1000, Ymd(1403, 1, 11)),
     Row(Amount3000, Ymd(1403, 2, 1)),
     Row(Amount1000, Ymd(1401, 1, 1)),
     Row(Amount3000, Ymd(1401, 1, 1)),
     Row(<<"7">>, UnformattedDate)}

CalcLists ==
    UNION {{[i \in 1..n |-> [id |-> toString(i), amount |-> f[i].amount,
                             date |-> f[i].date]] : f \in [1..n -> CalcRows]}
           : n \in 0..MaxCalcCheques}

(* what an import delivers: amount and date text of one row *)
ImportRows == {[amount |-> Amount1000, date |-> Ymd(1403, 1, 11)],
               [amount |-> <<>>, date |-> <<>>]}

(* Math.random().toString(36).substring(7): may be empty *)
RandomSuffixes == {<<>>, <<"k">>}

(* Date.now() at start-up, in milliseconds (scaled) *)
StartMs == 10 * 100

(* the instant of start-up: 2024-03-20T12:00Z *)
StartInstant ==
    (Val(g2d(N(2024), N(3), N(20))) - EpochJdn) * HalfHoursPerDay + 24

---------------------------------------------------------------------------
(* The application                                                         *)

DateNow == StartMs + now

getTodayJalali(zone) == dateToJalali(zone, N(StartInstant)).text

BlankCheque(id) == [id |-> id, amount |-> <<>>, date |-> <<>>]

IdleJob == [busy |-> FALSE, cheques |-> <<>>]

NoProbe == [fn |-> "none"]

Ids(list) == {list[i].id : i \in 1..Len(list)}

(* cheques.length === 1 && !cheques[0].amount && !cheques[0].date *)
IsPlaceholder(list) ==
    Len(list) = 1 /\ list[1].amount = <<>> /\ list[1].date = <<>>

RECURSIVE filterOut(_, _)
filterOut(list, id) ==
    IF list = <<>> THEN <<>>
    ELSE IF Head(list).id # id THEN <<Head(list)>> \o filterOut(Tail(list), id)
    ELSE filterOut(Tail(list), id)

setField(c, field, value) ==
    IF field = "amount" THEN [c EXCEPT !.amount = value]
    ELSE [c EXCEPT !.date = value]

mapUpdate(list, id, field, value) ==
    [i \in 1..Len(list) |->
        IF list[i].id = id THEN setField(list[i], field, value) ELSE list[i]]

(* the zone of the browser the application is opened in *)
HomeZone == "Asia/Tehran"

Init ==
    /\ tz = HomeZone
    /\ now = 0
    /\ baseDate = getTodayJalali(tz)
    /\ cheques = <<BlankCheque(<<"1">>)>>
    /\ imageJob = IdleJob
    /\ excelJob = IdleJob
    /\ probe = NoProbe

setCheques(list) ==
    /\ cheques' = list
    /\ UNCHANGED <<tz, baseDate, probe>>

(* line 313 *)
SetBaseDate ==
    \E v \in BaseDates :
        /\ baseDate' = formatJalaliInput(v)
        /\ UNCHANGED <<tz, now, cheques, imageJob, excelJob, probe>>

(* lines 164-166 *)
addCheque ==
    /\ Len(cheques) < MaxCheques
    /\ setCheques(Append(cheques, BlankCheque(toString(DateNow))))
    /\ UNCHANGED <<now, imageJob, excelJob>>

(* lines 168-170 *)
removeCheque ==
    \E id \in Ids(cheques) :
        /\ setCheques(filterOut(cheques, id))
        /\ UNCHANGED <<now, imageJob, excelJob>>

(* lines 172-174 *)
updateCheque(id, field, value) ==
    /\ setCheques(mapUpdate(cheques, id, field, value))
    /\ UNCHANGED <<now, imageJob, excelJob>>

(* lines 401-404 *)
EditAmount ==
    \E id \in Ids(cheques), v \in UiAmounts :
        updateCheque(id, "amount", OnlyDigits(v))

(* line 418 *)
EditDate ==
    \E id \in Ids(cheques), v \in UiDates :
        updateCheque(id, "date", formatJalaliInput(v))

(* lines 176-180, the user confirming *)
clearAll ==
    /\ setCheques(<<BlankCheque(toString(DateNow))>>)
    /\ UNCHANGED <<now, imageJob, excelJob>>

(* lines 105-111: the handler starts reading; its closure holds the       *)
(* cheques of the render it was created in                                 *)
ImageUploadStart ==
    /\ ~imageJob.busy
    /\ imageJob' = [busy |-> TRUE, cheques |-> cheques]
    /\ UNCHANGED <<tz, now, baseDate, cheques, excelJob, probe>>

(* lines 134-159: the extraction answered with data *)
ImageUploadDone ==
    \E data \in ImportRows :
        LET newCheque == [id |-> toString(DateNow), amount |-> data.amount,
                          date |-> data.date]
            old       == imageJob.cheques
        IN  /\ imageJob.busy
            /\ imageJob' = IdleJob
            /\ IF data.amount # <<>> \/ data.date # <<>>
               THEN /\ IsPlaceholder(old) \/ Len(old) < MaxCheques
                    /\ setCheques(IF IsPlaceholder(old) THEN <<newCheque>>
                                  ELSE Append(old, newCheque))
               ELSE UNCHANGED <<tz, baseDate, cheques, probe>>
            /\ UNCHANGED <<now, excelJob>>

(* lines 182-187 *)
ExcelUploadStart ==
    /\ ~excelJob.busy
    /\ excelJob' = [busy |-> TRUE, cheques |-> cheques]
    /\ UNCHANGED <<tz, now, baseDate, cheques, imageJob, probe>>

(* lines 193-204: the rows that carry an amount or a date become cheques *)
RECURSIVE NewCheques(_, _)
NewCheques(rows, suffixes) ==
    IF rows = <<>> THEN <<>>
    ELSE LET r == Head(rows)
         IN  IF r.amount # <<>> \/ r.date # <<>>
             THEN <<[id |-> toString(DateNow) \o Head(suffixes),
                     amount |-> r.amount, date |-> r.date]>>
                  \o NewCheques(Tail(rows), Tail(suffixes))
             ELSE NewCheques(Tail(rows), Tail(suffixes))

(* lines 187-221: the file was read *)
ExcelUploadDone ==
    \E n \in 0..MaxCheques :
      \E rows \in [1..n -> ImportRows], suffixes \in [1..n -> RandomSuffixes] :
        LET newCheques == NewCheques(rows, suffixes)
            old        == excelJob.cheques
        IN  /\ excelJob.busy
            /\ excelJob' = IdleJob
            /\ IF Len(newCheques) > 0
               THEN /\ Len(newCheques) + (IF IsPlaceholder(old) THEN 0 ELSE Len(old))
                         <= MaxCheques
                    /\ setCheques(IF IsPlaceholder(old) THEN newCheques
                                  ELSE old \o newCheques)
               ELSE UNCHANGED <<tz, baseDate, cheques, probe>>
            /\ UNCHANGED <<now, imageJob>>

(* the clock advances by a millisecond *)
Tick ==
    /\ now < MaxTick
    /\ now' = now + 1
    /\ UNCHANGED <<tz, baseDate, cheques, imageJob, excelJob, probe>>

(* the operations on the cheque list; the base date field is edited in the *)
(* calculation's specification below, none of these operations reads it    *)
Next ==
    \/ addCheque
    \/ removeCheque
    \/ EditAmount
    \/ EditDate
    \/ clearAll
    \/ ImageUploadStart
    \/ ImageUploadDone
    \/ ExcelUploadStart
    \/ ExcelUploadDone
    \/ Tick

Spec == Init /\ [][Next]_vars

---------------------------------------------------------------------------
(* The calculation over drawn inputs                                       *)

InitCalc ==
    /\ tz \in TimeZones
    /\ now = 0
    /\ baseDate \in CalcBaseDates
    /\ cheques \in CalcLists
    /\ imageJob = IdleJob
    /\ excelJob = IdleJob
    /\ probe = NoProbe

NextCalc ==
    \/ SetBaseDate
    \/ removeCheque

SpecCalc == InitCalc /\ [][NextCalc]_vars

---------------------------------------------------------------------------
(* The helpers called on drawn inputs                                      *)

Txt(a, b, c) == a \o <<"/">> \o b \o <<"/">> \o c

(* raw amount texts: typed, pasted, or cells of an imported sheet *)
AmountTexts ==
    {<<>>, <<"0">>, <<"7">>, <<"0", "0", "7">>, Amount1000,
     <<"1", ",", "0", "0", "0">>, <<"1", ",", "0", "0", "0", ",", "0", "0", "0">>,
     <<"-", "5">>, <<"+", "5">>, <<" ", "4", "2">>, <<"1", "2", " ", "0", "0", "0">>,
     <<"1", "2", "a", "3", "4">>, <<"a", "1", "2", "3">>, <<"a", "b", "c">>,
     <<"1", ".", "5">>, <<"1", "2", ".", "0", "0", "0">>, <<",", ",">>,
     <<"-">>, <<"-", "0">>, <<"5", "-">>, <<"$", "9">>, <<"9", "$">>,
     <<"1", "e", "3">>, <<"0", "x", "1", "0">>, <<"-", "1", ",", "2">>}

ProbeYears == {<<"1", "4", "0", "3">>, <<"1", "4", "0", "4">>, <<"1", "4", "0", "1">>,
               <<"3", "1", "7", "7">>}

ProbeMonths == {<<"1">>, <<"0", "1">>, <<"6">>, <<"1", "0">>, <<"1", "2">>, <<"1", "3">>}

ProbeDays == {<<"1">>, <<"0", "1">>, <<"1", "1">>, <<"1", "2">>, <<"2", "9">>,
              <<"3", "0">>, <<"3", "1">>}

(* date texts: canonical, unpadded, out of the calendar, and malformed *)
DateTexts ==
    {Txt(y, m, d) : y \in ProbeYears, m \in ProbeMonths, d \in ProbeDays}
      \cup {<<>>, <<"1", "4", "0", "3">>, Txt(<<"1", "4", "0", "3">>, <<"0", "1">>, <<>>),
            <<"1", "4", "0", "3", "/", "0", "1">>,
            Ymd(1403, 1, 1) \o <<"/", "0", "1">>,
            UnformattedDate,
            Txt(<<"1", "4", "0", "3">>, <<"0", "1">>, <<"1", ".", "5">>),
            Txt(<<"1", "4", "0", "3">>, <<"1", "a">>, <<"1">>),
            Txt(<<"1", "4", "0", "3">>, <<"0", "1">>, <<" ", "5">>),
            Txt(<<"a">>, <<"1">>, <<"1">>),
            Txt(<<"1", "4", "0", "3">>, <<"0">>, <<"1">>),
            Txt(<<"1", "4", "0", "3">>, <<"1">>, <<"0">>),
            <<"1", "4", "0", "3", "-", "0", "1", "-", "0", "1">>}

(* the longest text typed or pasted into a date field *)
MaxInputLen == 12

(* what is typed key by key: digits only, with separators, with other     *)
(* characters between and around the digits                                *)
TypedTexts ==
    {<<"1", "4", "0", "3", "0", "1", "1", "1", "2", "2", "3", "3", "4", "4">>,
     <<"1", "4", "0", "3", "/", "0", "1", "/", "1", "1", "/", "2", "2", "3">>,
     <<"1", "4", "0", "3", "/", "/", "0", "1", "-", "1", "1", "2", "2", "3">>,
     <<"a", "1", "4", " ", "0", "3", ".", "0", "1", "x", "1", "1", "9", "9">>,
     <<"/", "1", "/", "4", "/", "0", "/", "3", "/", "0", "/", "1", "/", "1">>,
     <<"a", "b", "/", "c", " ", "-", ".", "d", "e", "/", "/", "f", "g", "h">>}

FormatTexts ==
    {SubSeq(t, 1, n) : t \in TypedTexts, n \in 0..MaxInputLen}

MaxTotalAmount == 4

MaxValueDays == 210

(* accumulators at the end of a pass that has a result *)
Accumulators ==
    [totalAmount : 1..MaxTotalAmount, totalValueDays : -MaxValueDays..MaxValueDays]

Call(fn, arg) == [fn |-> fn, arg |-> arg, state |-> "called"]

Return(p, ret) == [fn |-> p.fn, arg |-> p.arg, state |-> "returned", ret |-> ret]

Called(fn) == probe.fn = fn /\ probe.state = "called"

Returned(fn) == probe.fn = fn /\ probe.state = "returned"

InitFn ==
    /\ tz \in TimeZones
    /\ now = 0
    /\ baseDate = getTodayJalali(tz)
    /\ cheques = <<BlankCheque(<<"1">>)>>
    /\ imageJob = IdleJob
    /\ excelJob = IdleJob
    /\ probe \in {Call("parseNumber", a) : a \in AmountTexts}
                   \cup {Call("isValidJalali", d) : d \in DateTexts}
                   \cup {Call("roundTrip", d) : d \in DateTexts}
                   \cup {Call("formatJalaliInput", t) : t \in FormatTexts}
                   \cup {Call("averageDays", a) : a \in Accumulators}

CallParseNumber ==
    /\ Called("parseNumber")
    /\ probe' = Return(probe, parseNumber(probe.arg))
    /\ UNCHANGED <<tz, now, baseDate, cheques, imageJob, excelJob>>

CallIsValidJalali ==
    /\ Called("isValidJalali")
    /\ probe' = Return(probe, isValidJalali(probe.arg))
    /\ UNCHANGED <<tz, now, baseDate, cheques, imageJob, excelJob>>

(* dateToJalali(jalaliToDate(s)) for a text the validator accepts *)
RoundTripOf(zone, d) ==
    IF d.threw THEN [threw |-> TRUE, text |-> <<>>] ELSE dateToJalali(zone, d.time)

RoundTrip(zone, s) == RoundTripOf(zone, jalaliToDate(zone, s))

CallRoundTrip ==
    /\ Called("roundTrip")
    /\ isValidJalali(probe.arg)
    /\ probe' = Return(probe, RoundTrip(tz, probe.arg))
    /\ UNCHANGED <<tz, now, baseDate, cheques, imageJob, excelJob>>

CallFormatJalaliInput ==
    /\ Called("formatJalaliInput")
    /\ probe' = Return(probe, formatJalaliInput(probe.arg))
    /\ UNCHANGED <<tz, now, baseDate, cheques, imageJob, excelJob>>

CallAverageDays ==
    /\ Called("averageDays")
    /\ probe' = Return(probe, AverageDays(probe.arg))
    /\ UNCHANGED <<tz, now, baseDate, cheques, imageJob, excelJob>>

NextFn ==
    \/ CallParseNumber
    \/ CallIsValidJalali
    \/ CallRoundTrip
    \/ CallFormatJalaliInput
    \/ CallAverageDays

SpecFn == InitFn /\ [][NextFn]_vars

---------------------------------------------------------------------------
(* Properties of the calculation                                           *)

(* the Julian day number of the calendar day a "y/m/d" text denotes *)
DayNumber(text) ==
    Val(j2d(parseInt(split(text)[1]), parseInt(split(text)[2]),
            parseInt(split(text)[3])).jdn)

(* a record that the rule of the specification counts *)
Contributes(base, c) ==
    parseNumber(c.amount) > 0 /\ isValidJalali(c.date) /\ isValidJalali(base)

RECURSIVE SumAmounts(_, _)
SumAmounts(base, list) ==
    IF list = <<>> THEN 0
    ELSE (IF Contributes(base, Head(list)) THEN parseNumber(Head(list).amount) ELSE 0)
         + SumAmounts(base, Tail(list))

RECURSIVE CountContributing(_, _)
CountContributing(base, list) ==
    IF list = <<>> THEN 0
    ELSE (IF Contributes(base, Head(list)) THEN 1 ELSE 0)
         + CountContributing(base, Tail(list))

(* the rows of a rendered table that contributed *)
ContributingRows(m) ==
    {i \in 1..Len(m.processedCheques) :
        m.processedCheques[i].parsedAmount > 0 /\ m.processedCheques[i].isDateValid
        /\ m.isBaseValid}

RowDays(m, i) == Val(parseInt(m.processedCheques[i].days))

RECURSIVE SumValueDays(_, _)
SumValueDays(m, rows) ==
    IF rows = {} THEN 0
    ELSE LET i == CHOOSE x \in rows : TRUE
         IN  m.processedCheques[i].parsedAmount * RowDays(m, i)
             + SumValueDays(m, rows \ {i})

RemoveAt(list, i) == SubSeq(list, 1, i - 1) \o SubSeq(list, i + 1, Len(list))

ZeroAmountTexts == {<<>>, <<"0">>}

ExclusionDates == {Ymd(1403, 2, 1), InvalidDate}

(* removing or re-dating a record whose amount parses to 0, or adding such *)
(* a record, leaves the three accumulators as they are                     *)
ZeroWeightExclusion(m) ==
    /\ \A i \in 1..Len(cheques) :
          parseNumber(cheques[i].amount) = 0 =>
            /\ useMemo(tz, baseDate, RemoveAt(cheques, i)).totals = m.totals
            /\ \A d \in ExclusionDates :
                  useMemo(tz, baseDate, [cheques EXCEPT ![i].date = d]).totals
                    = m.totals
    /\ \A a \in ZeroAmountTexts, d \in ExclusionDates :
          useMemo(tz, baseDate,
                  Append(cheques, [id |-> <<"n">>, amount |-> a, date |-> d])).totals
            = m.totals

ContributionRule(m) ==
    /\ m.totals.validChequesCount = CountContributing(baseDate, cheques)
    /\ m.totals.totalAmount = SumAmounts(baseDate, cheques)
    /\ m.totals.totalValueDays = SumValueDays(m, ContributingRows(m))
    /\ Cardinality(ContributingRows(m)) = CountContributing(baseDate, cheques)
    /\ m.results.kind = "value" =>
          /\ m.results.totalAmount = SumAmounts(baseDate, cheques)
          /\ m.results.totalAmount > 0
          /\ m.results.validChequesCount = CountContributing(baseDate, cheques)
    /\ ZeroWeightExclusion(m)

(* C1: in the single pass a record is added to totalAmount, totalValueDays *)
(* and validChequesCount exactly when its parsed amount is > 0, its date   *)
(* is valid and the base date is valid; results.totalAmount is the sum of  *)
(* the parsed amounts of exactly those records and is > 0 whenever results *)
(* exists; adding, removing or re-dating a record whose amount parses to 0 *)
(* changes none of the three accumulators.                                 *)
C1_ContributionRule == ContributionRule(memo)

(* a result computed from a list that also holds a record with a valid     *)
(* date and an amount that parses to 0                                     *)
C1_Witness ==
    /\ results.kind = "value"
    /\ \E i \in 1..Len(cheques) :
          parseNumber(cheques[i].amount) = 0 /\ isValidJalali(cheques[i].date)
    /\ \E i \in 1..Len(cheques) : Contributes(baseDate, cheques[i])

ResultExistence(r) ==
    /\ r # Null <=>
          /\ isValidJalali(baseDate)
          /\ \E i \in 1..Len(cheques) :
                parseNumber(cheques[i].amount) > 0 /\ isValidJalali(cheques[i].date)
    /\ ~isValidJalali(baseDate) => r = Null
    /\ CountContributing(baseDate, cheques) = 0 => r = Null

Scenario5 ==
    /\ baseDate = Ymd(1403, 1, 1)
    /\ Len(cheques) = 2
    /\ cheques[1].amount = Amount1000 /\ cheques[1].date = Ymd(1403, 1, 11)
    /\ cheques[2].amount = Amount3000 /\ cheques[2].date = Ymd(1403, 2, 1)

(* a is the integer nearest to v / t, a tie going up *)
Nearest(a, v, t) == 2 * a * t <= 2 * v + t /\ 2 * v + t < 2 * (a + 1) * t

AverageDaysRounded(m) ==
    /\ m.results.kind = "value" =>
          Nearest(m.results.averageDays, SumValueDays(m, ContributingRows(m)),
                  m.results.totalAmount)
    /\ Scenario5 =>
          /\ m.results.kind = "value"
          /\ RowDays(m, 1) = 10 /\ RowDays(m, 2) = 31
          /\ 4 * SumValueDays(m, ContributingRows(m)) = 103 * m.results.totalAmount
          /\ m.results.averageDays = 26
          /\ m.results.rasDate = Ymd(1403, 1, 27)

AsStated(m) ==
    Scenario5 =>
        /\ m.results.kind = "value"
        /\ 2 * SumValueDays(m, ContributingRows(m)) = 205 * m.results.totalAmount
        /\ m.results.averageDays = 103
        /\ m.results.rasDate = Ymd(1403, 4, 11)

CanonicalDates ==
    \A i \in 1..Len(cheques) : formatJalaliInput(cheques[i].date) = cheques[i].date

RasDateOffset(r) ==
    (r # Null /\ CanonicalDates) =>
        /\ r.kind = "value"
        /\ isValidJalali(r.rasDate)
        /\ DayNumber(r.rasDate) - DayNumber(baseDate) = r.averageDays

(* C4: whenever results exists, rasDate is the calendar date exactly       *)
(* averageDays days after the base date, also across a change of the local *)
(* clock.                                                                  *)
C4_RasDateOffset == RasDateOffset(results)

DayOffset(rows) ==
    \A i \in 1..Len(cheques) :
        /\ rows[i].days = <<"-">>
              <=> ~(isValidJalali(baseDate) /\ isValidJalali(cheques[i].date))
        /\ (isValidJalali(baseDate) /\ isValidJalali(cheques[i].date)) =>
              rows[i].days = toString(DayNumber(cheques[i].date) - DayNumber(baseDate))

(* C5: days is the placeholder exactly when the base date or the record's  *)
(* date is not valid; when both are valid it is the number of calendar     *)
(* days from the base date to the record's date, for every text the        *)
(* validator accepts.                                                      *)
C5_DayOffset == DayOffset(processedCheques)

CommonOffset(m) ==
    m.results.kind = "value" =>
        \A i \in ContributingRows(m) :
            (\A j \in ContributingRows(m) : RowDays(m, j) = RowDays(m, i))
                => m.results.averageDays = RowDays(m, i)

(* C6: if every contributing record has the same day offset k, then        *)
(* averageDays is k, whatever the positive amounts are.                    *)
C6_CommonOffset == CommonOffset(memo)

CommonNegativeOffset(m) ==
    /\ m.results.kind = "value"
    /\ \E i, j \in ContributingRows(m) :
          /\ m.processedCheques[i].parsedAmount # m.processedCheques[j].parsedAmount
          /\ RowDays(m, i) = RowDays(m, j)
          /\ RowDays(m, i) < 0
    /\ \A i, j \in ContributingRows(m) : RowDays(m, i) = RowDays(m, j)

(* two contributing records of different amounts and one negative offset *)
C6_Witness == CommonNegativeOffset(memo)

---------------------------------------------------------------------------
(* Properties of the helpers                                               *)

PurelyNumeric(parts) ==
    \A i \in 1..Len(parts) : parts[i] # <<>> /\ AllDigits(parts[i])

(* "YYYY/MM/DD" of the date that the groups of a text denote *)
Canonical(parts) ==
    Txt(toString(Val(parseInt(parts[1]))),
        padStart2(toString(Val(parseInt(parts[2])))),
        padStart2(toString(Val(parseInt(parts[3])))))

(* C7: for every valid date whose text has purely numeric groups,          *)
(* jalaliToDate followed by dateToJalali gives the same date back, with    *)
(* month and day padded to two digits.                                     *)
C7_RoundTrip ==
    (Returned("roundTrip") /\ PurelyNumeric(split(probe.arg))) =>
        /\ ~probe.ret.threw
        /\ probe.ret.text = Canonical(split(probe.arg))

(* C8: isValidJalali returns true only for a text of exactly three purely  *)
(* numeric groups that denote a legal date of the calendar.                *)
C8_Validation ==
    (Returned("isValidJalali") /\ probe.ret) =>
        /\ Len(split(probe.arg)) = 3
        /\ PurelyNumeric(split(probe.arg))
        /\ isValidJalaaliDate(parseInt(split(probe.arg)[1]),
                              parseInt(split(probe.arg)[2]),
                              parseInt(split(probe.arg)[3]))

(* C9: parseNumber returns the non-negative integer that the digits of the *)
(* text spell once every other character is removed, and 0 when there is   *)
(* no digit.                                                               *)
C9_ParseNumber ==
    Returned("parseNumber") =>
        /\ probe.ret = DigitsValue(OnlyDigits(probe.arg), 0)
        /\ probe.ret >= 0

(* the first at most 8 digits of a text *)
FirstDigits(text) ==
    SubSeq(OnlyDigits(text), 1,
           IF Len(OnlyDigits(text)) < 8 THEN Len(OnlyDigits(text)) ELSE 8)

(* out is the digits d with a separator after the 4th digit when there are *)
(* more than 4 and after the 6th when there are more than 6                *)
Shaped(out, d) ==
    /\ OnlyDigits(out) = d
    /\ Len(out) = Len(d) + (IF Len(d) > 4 THEN 1 ELSE 0) + (IF Len(d) > 6 THEN 1 ELSE 0)
    /\ \A i \in 1..Len(out) :
          out[i] = "/" <=> (i = 5 /\ Len(d) > 4) \/ (i = 8 /\ Len(d) > 6)
    /\ \A i \in 1..Len(out) : out[i] = "/" \/ IsDigit(out[i])

(* C11: formatJalaliInput returns the first at most 8 digits of its input, *)
(* in order, every other character dropped, with a '/' after the 4th digit *)
(* when there are more than 4 digits and a second '/' after the 6th digit  *)
(* when there are more than 6; the output never has more than 8 digits,    *)
(* never ends in a separator, and is a fixed point of the function.        *)
C11_InputShaping ==
    Returned("formatJalaliInput") =>
        /\ Shaped(probe.ret, FirstDigits(probe.arg))
        /\ Len(OnlyDigits(probe.ret)) <= 8
        /\ probe.ret # <<>> => probe.ret[Len(probe.ret)] # "/"
        /\ formatJalaliInput(probe.ret) = probe.ret

(* more than 8 digits between other characters, shaped to YYYY/MM/DD *)
C11_Witness ==
    /\ Returned("formatJalaliInput")
    /\ Len(OnlyDigits(probe.arg)) > 8
    /\ Len(OnlyDigits(probe.arg)) < Len(probe.arg)
    /\ Len(probe.ret) = 10
    /\ probe.ret[5] = "/" /\ probe.ret[8] = "/"

---------------------------------------------------------------------------
(* Properties of the list operations                                       *)

(* C10: after any sequence of list operations all records of the list have *)
(* pairwise distinct ids.                                                  *)
C10_DistinctIds == Cardinality(Ids(cheques)) = Len(cheques)

(* an import completes in this step: its handler was pending and is not *)
ImportCompletes ==
    \/ imageJob.busy /\ ~imageJob'.busy
    \/ excelJob.busy /\ ~excelJob'.busy

(* the list after the step is the list before it followed by new records, *)
(* or new records only when the list before it is one blank placeholder   *)
KeepsList ==
    \/ cheques' = cheques
    \/ IsPlaceholder(cheques)
    \/ /\ Len(cheques') > Len(cheques)
       /\ SubSeq(cheques', 1, Len(cheques)) = cheques

(* C12: the list an import installs when it completes holds every record   *)
(* that was in the list immediately before the completion, with its latest *)
(* amount and date, followed by the imported records; nothing the user or  *)
(* another import did since the import started is lost.                    *)
C12_CompletionKeepsList == [][ImportCompletes => KeepsList]_vars

---------------------------------------------------------------------------
(* Properties of the rounding                                              *)

(* v / t is exactly n + 0.5 for an integer n *)
IsTie(v, t) == (2 * v) % t = 0 /\ ((2 * v) \div t) % 2 = 1

(* the accumulators of the same records with every day offset negated *)
Negated(acc) == [acc EXCEPT !.totalValueDays = -@]

(* C13: the rounding of the weighted average is fixed as Math.round, a tie *)
(* going up for every sign: when totalValueDays / totalAmount is exactly   *)
(* n + 0.5 the result is n + 1, also for n < 0 (-102.5 gives -102), so     *)
(* negating every day offset negates averageDays except at a tie, where    *)
(* the result is one more than the negation.                               *)
C13_RoundHalfUp ==
    Returned("averageDays") =>
        /\ Nearest(probe.ret, probe.arg.totalValueDays, probe.arg.totalAmount)
        /\ IsTie(probe.arg.totalValueDays, probe.arg.totalAmount) =>
              2 * probe.arg.totalValueDays + probe.arg.totalAmount
                = 2 * probe.ret * probe.arg.totalAmount
        /\ AverageDays(Negated(probe.arg))
              = IF IsTie(probe.arg.totalValueDays, probe.arg.totalAmount)
                THEN 1 - probe.ret ELSE -probe.ret

(* the quotient -102.5 *)
C13_Witness ==
    /\ Returned("averageDays")
    /\ probe.arg.totalValueDays = -205 /\ probe.arg.totalAmount = 2
    /\ probe.ret = -102

(* C13 as stated: a tie goes away from zero (n + 1 for n >= 0, n for       *)
(* n < 0) and negating every day offset negates averageDays                *)
C13_AsStated ==
    Returned("averageDays") =>
        /\ IsTie(probe.arg.totalValueDays, probe.arg.totalAmount) =>
              IF probe.arg.totalValueDays >= 0
              THEN 2 * probe.arg.totalValueDays + probe.arg.totalAmount
                     = 2 * probe.ret * probe.arg.totalAmount
              ELSE 2 * probe.arg.totalValueDays - probe.arg.totalAmount
                     = 2 * probe.ret * probe.arg.totalAmount
        /\ AverageDays(Negated(probe.arg)) = -probe.ret

=============================================================================
